---- MODULE Spec2Model ----
(***************************************************************************)
(* A model of build.ts: the markdown-to-HTML site build of noted.         *)
(*                                                                         *)
(* Strings are sequences of one-character strings, so that the path and   *)
(* extension manipulation of the script (join, relative, dirname, split,  *)
(* replace, endsWith, startsWith, localeCompare) is computed character by *)
(* character as the script computes it.  The alphabet is lower-case ASCII *)
(* letters, '.', '/', '#', ' ' and newline.                                *)
(***************************************************************************)
EXTENDS Integers, Sequences, FiniteSets, TLC

VARIABLES
    fs,        \* the file system: absolute path -> [kind, data]
    fs0,       \* the file system as it was when this run started
    pc,        \* where build() is
    calling,   \* the directory getAllMarkdownFiles was just called on, or NoDir
    stack,     \* the active getAllMarkdownFiles calls: [dir, todo]
    mdFiles,   \* the files array filled by getAllMarkdownFiles
    conv,      \* the convertMarkdownToHtml calls of this run, one per mdFiles entry
    tocInput,  \* the pages generateTocHtml was called with, or <<>>
    errLog,    \* what the top-level catch has logged (console.error)
    msgs,      \* the progress messages printed (console.log), as tags
    run,       \* which run of the script this is
    snap,      \* the output tree as the first run left it
    late,      \* the output paths written after build() had ended, in this run
    titleIn,   \* title extraction alone: the text of the source
    titleOut,  \* title extraction alone: <<>>, or <<title>> once derived
    tocPages,  \* generateTocHtml, stepwise: the pages array
    tocPhase,  \* generateTocHtml, stepwise: "idle", "sort", "insert", "render", "done"
    tocIdx,    \* generateTocHtml, stepwise: how many pages have been inserted
    tocTree,   \* generateTocHtml, stepwise: the tree (node 1 is root)
    tocOut     \* generateTocHtml, stepwise: the rendered items of innerTree

vars == <<fs, fs0, pc, calling, stack, mdFiles, conv, tocInput, errLog, msgs, run,
          snap, late, titleIn, titleOut, tocPages, tocPhase, tocIdx, tocTree, tocOut>>

buildVars == <<fs, fs0, pc, calling, stack, mdFiles, conv, tocInput, errLog, msgs, run, snap, late>>
titleVars == <<titleIn, titleOut>>
tocVars == <<tocPages, tocPhase, tocIdx, tocTree, tocOut>>

(***************************************************************************)
(* Bounds of the model.                                                    *)
(***************************************************************************)
\* The number of entries (files and directories) below the working directory.
MaxEntries == 4
\* The number of pages handed to generateTocHtml when it is checked alone.
MaxPages == 3
\* The length of the source text when the title extraction is checked alone.
MaxTextLen == 4
\* How many times in a row the script is run on the tree.
MaxRuns == 2

(***************************************************************************)
(* Strings.                                                                *)
(***************************************************************************)
Slash == "/"
MdExt == <<".", "m", "d">>
HtmlExt == <<".", "h", "t", "m", "l">>

\* String.prototype.startsWith / endsWith
StartsWith(s, pre) ==
    /\ Len(pre) <= Len(s)
    /\ SubSeq(s, 1, Len(pre)) = pre

EndsWith(s, suf) ==
    /\ Len(suf) <= Len(s)
    /\ SubSeq(s, Len(s) - Len(suf) + 1, Len(s)) = suf

\* The position of the last '/' of s, or 0.
LastSlash(s) ==
    LET at == {i \in 1..Len(s) : s[i] = Slash}
    IN  IF at = {} THEN 0 ELSE CHOOSE i \in at : \A j \in at : j <= i

\* path.join(a, b) of two normalised paths, a absolute, b relative and non-empty.
Join(a, b) == a \o <<Slash>> \o b

\* path.dirname of a normalised absolute path below the root.
Dirname(p) == SubSeq(p, 1, LastSlash(p) - 1)

\* path.basename(p) and path.basename(p, ext)
Basename(p) == SubSeq(p, LastSlash(p) + 1, Len(p))

BasenameExt(p, ext) ==
    LET b == Basename(p)
    IN  IF EndsWith(b, ext) /\ b # ext
        THEN SubSeq(b, 1, Len(b) - Len(ext))
        ELSE b

\* path.relative(from, to), for `to` at or below `from`.
Relative(from, to) ==
    IF to = from THEN <<>> ELSE SubSeq(to, Len(from) + 2, Len(to))

\* s.replace(/\.md$/, ".html")
ReplaceMdWithHtml(s) ==
    IF EndsWith(s, MdExt)
    THEN SubSeq(s, 1, Len(s) - Len(MdExt)) \o HtmlExt
    ELSE s

\* s.split("/"): the pieces between the separators, empty pieces included.
RECURSIVE Split(_)
Split(s) ==
    LET at == {i \in 1..Len(s) : s[i] = Slash}
    IN  IF at = {}
        THEN <<s>>
        ELSE LET i == CHOOSE k \in at : \A j \in at : k <= j
             IN  <<SubSeq(s, 1, i - 1)>> \o Split(SubSeq(s, i + 1, Len(s)))

\* Array.prototype.filter(Boolean) on strings: the empty string is falsy.
RECURSIVE FilterBoolean(_)
FilterBoolean(parts) ==
    IF parts = <<>> THEN <<>>
    ELSE IF Head(parts) = <<>> THEN FilterBoolean(Tail(parts))
    ELSE <<Head(parts)>> \o FilterBoolean(Tail(parts))

\* parts.join("/")
RECURSIVE JoinParts(_)
JoinParts(parts) ==
    IF parts = <<>> THEN <<>>
    ELSE IF Len(parts) = 1 THEN parts[1]
    ELSE parts[1] \o <<Slash>> \o JoinParts(Tail(parts))

\* The collation rank of a character: String.prototype.localeCompare orders
\* white space before punctuation before letters, '.' before '/' before '#',
\* and the letters alphabetically.  All characters of the alphabet differ at
\* the first collation level, so the comparison is the lexicographic one.
Letters == <<"a", "b", "c", "d", "e", "f", "g", "h", "i", "j", "k", "l", "m",
             "n", "o", "p", "q", "r", "s", "t", "u", "v", "w", "x", "y", "z">>

CollRank(c) ==
    CASE c = "\n" -> 1
      [] c = " " -> 2
      [] c = "." -> 3
      [] c = "/" -> 4
      [] c = "#" -> 5
      [] OTHER -> 5 + (CHOOSE i \in 1..Len(Letters) : Letters[i] = c)

\* a.localeCompare(b): negative, zero or positive.
RECURSIVE LocaleCompare(_, _)
LocaleCompare(a, b) ==
    IF a = <<>> /\ b = <<>> THEN 0
    ELSE IF a = <<>> THEN -1
    ELSE IF b = <<>> THEN 1
    ELSE IF CollRank(Head(a)) < CollRank(Head(b)) THEN -1
    ELSE IF CollRank(Head(a)) > CollRank(Head(b)) THEN 1
    ELSE LocaleCompare(Tail(a), Tail(b))

(***************************************************************************)
(* PageInfo and TreeNode.                                                  *)
(***************************************************************************)
\* interface PageInfo
PageInfo(path, relativePath, title, depth) ==
    [path |-> path, relativePath |-> relativePath, title |-> title, depth |-> depth]

\* A TreeNode of generateTocHtml.  `page` is <<>> for undefined and <<p>> for
\* the page p; `children` holds the indices of the child nodes in the tree.
TreeNode(name, path, children, page) ==
    [name |-> name, path |-> path, children |-> children, page |-> page]

\* const root: TreeNode = { name: "Project", path: "", children: [], page: undefined }
RootName == <<"p", "r", "o", "j", "e", "c", "t">>
RootNode == TreeNode(RootName, <<>>, <<>>, <<>>)
EmptyTree == <<RootNode>>
IsRoot(id) == id = 1

(***************************************************************************)
(* generateTocHtml: sorting the pages.                                     *)
(***************************************************************************)
\* (a, b) => a.path.localeCompare(b.path)
PageCompare(a, b) == LocaleCompare(a.path, b.path)

\* One step of a stable sort: x goes after every element that does not sort
\* after it.
RECURSIVE InsertPageSorted(_, _)
InsertPageSorted(sorted, x) ==
    IF sorted = <<>> THEN <<x>>
    ELSE IF PageCompare(Head(sorted), x) <= 0
         THEN <<Head(sorted)>> \o InsertPageSorted(Tail(sorted), x)
         ELSE <<x>> \o sorted

RECURSIVE SortPagesInto(_, _)
SortPagesInto(sorted, rest) ==
    IF rest = <<>> THEN sorted
    ELSE SortPagesInto(InsertPageSorted(sorted, Head(rest)), Tail(rest))

\* The pages left in the order they came in.
SortPagesNot(pages) == pages

\* pages.sort((a, b) => a.path.localeCompare(b.path)): Array.prototype.sort is stable.
SortPages(pages) == SortPagesInto(<<>>, pages)

(***************************************************************************)
(* generateTocHtml: building the tree.                                     *)
(***************************************************************************)
\* A find that compares the child's path, not its name, with the segment.
FindChildByPath(tree, current, part) ==
    LET ch == tree[current].children
        at == {k \in 1..Len(ch) : tree[ch[k]].path = part}
    IN  IF at = {} THEN 0
        ELSE ch[CHOOSE k \in at : \A j \in at : k <= j]

\* current.children.find((c) => c.name === part): the first such child, or 0.
FindChild(tree, current, part) ==
    LET ch == tree[current].children
        at == {k \in 1..Len(ch) : tree[ch[k]].name = part}
    IN  IF at = {} THEN 0
        ELSE ch[CHOOSE k \in at : \A j \in at : k <= j]

\* A find-or-create that attaches the page to the node it found as well.
InsertPartOverwriting(tree, current, parts, i, page) ==
    LET part == parts[i]
        isFile == i = Len(parts)
        fullPathSoFar == JoinParts(SubSeq(parts, 1, i))
        found == FindChild(tree, current, part)
        fresh == Len(tree) + 1
        child == IF found = 0 THEN fresh ELSE found
        grown ==
            IF found = 0
            THEN Append([tree EXCEPT ![current].children = Append(@, fresh)],
                        TreeNode(part, fullPathSoFar, <<>>,
                                 IF isFile THEN <<page>> ELSE <<>>))
            ELSE IF isFile THEN [tree EXCEPT ![found].page = <<page>>]
            ELSE tree
    IN  [tree |-> grown, current |-> IF isFile THEN current ELSE child]

\* The body of parts.forEach((part, i) => ...): the tree and `current` after it.
InsertPart(tree, current, parts, i, page) ==
    LET part == parts[i]
        isFile == i = Len(parts)
        fullPathSoFar == JoinParts(SubSeq(parts, 1, i))
        found == FindChild(tree, current, part)
        fresh == Len(tree) + 1
        child == IF found = 0 THEN fresh ELSE found
        grown ==
            IF found = 0
            THEN Append([tree EXCEPT ![current].children = Append(@, fresh)],
                        TreeNode(part, fullPathSoFar, <<>>,
                                 IF isFile THEN <<page>> ELSE <<>>))
            ELSE tree
    IN  [tree |-> grown, current |-> IF isFile THEN current ELSE child]

RECURSIVE InsertParts(_, _, _, _, _)
InsertParts(tree, current, parts, i, page) ==
    IF i > Len(parts) THEN tree
    ELSE LET r == InsertPart(tree, current, parts, i, page)
         IN  InsertParts(r.tree, r.current, parts, i + 1, page)

\* page.path.split("/").filter(Boolean)
PathParts(path) == FilterBoolean(Split(path))

\* The body of pages.forEach((page) => ...).
InsertPage(tree, page) == InsertParts(tree, 1, PathParts(page.path), 1, page)

RECURSIVE BuildTreeFrom(_, _)
BuildTreeFrom(tree, pages) ==
    IF pages = <<>> THEN tree
    ELSE BuildTreeFrom(InsertPage(tree, Head(pages)), Tail(pages))

(***************************************************************************)
(* generateTocHtml: rendering.                                             *)
(***************************************************************************)
\* The comparator of node.children.sort: folders first, then files, then by name.
NodeCompare(a, b) ==
    LET aIsDir == a.page = <<>>
        bIsDir == b.page = <<>>
    IN  IF aIsDir /\ ~bIsDir THEN -1
        ELSE IF ~aIsDir /\ bIsDir THEN 1
        ELSE LocaleCompare(a.name, b.name)

RECURSIVE InsertNodeSorted(_, _, _)
InsertNodeSorted(tree, sorted, x) ==
    IF sorted = <<>> THEN <<x>>
    ELSE IF NodeCompare(tree[Head(sorted)], tree[x]) <= 0
         THEN <<Head(sorted)>> \o InsertNodeSorted(tree, Tail(sorted), x)
         ELSE <<x>> \o sorted

RECURSIVE SortNodesInto(_, _, _)
SortNodesInto(tree, sorted, rest) ==
    IF rest = <<>> THEN sorted
    ELSE SortNodesInto(tree, InsertNodeSorted(tree, sorted, Head(rest)), Tail(rest))

\* node.children.sort(comparator)
SortChildren(tree, children) == SortNodesInto(tree, <<>>, children)

\* What renderNode emits: a link item (href and title) or a folder item (name
\* and the items of its <ul>).
LinkItem(href, title) ==
    [t |-> "file", name |-> <<>>, href |-> href, title |-> title, items |-> <<>>]
FolderItem(name, items) ==
    [t |-> "folder", name |-> name, href |-> <<>>, title |-> <<>>, items |-> items]

RECURSIVE RenderNode(_, _)
RECURSIVE RenderNodes(_, _)
RenderNode(tree, id) ==
    LET node == tree[id]
    IN  IF node.page # <<>>
        THEN LinkItem(node.page[1].path, node.page[1].title)
        ELSE FolderItem(node.name, RenderNodes(tree, SortChildren(tree, node.children)))

\* ids.map((child) => renderNode(child)).join("")
RenderNodes(tree, ids) ==
    IF ids = <<>> THEN <<>>
    ELSE <<RenderNode(tree, Head(ids))>> \o RenderNodes(tree, Tail(ids))

\* const innerTree = root.children.map(renderNode).join("")
InnerTree(tree) == RenderNodes(tree, tree[1].children)

\* The page generateTocHtml returns: the template is fixed, so the page is
\* its two interpolations, innerTree and pages.length.
TocHtml(inner, total) == [kind |-> "toc", inner |-> inner, total |-> total]

GenerateTocHtml(pages) ==
    LET sorted == SortPages(pages)
        tree == BuildTreeFrom(EmptyTree, sorted)
    IN  TocHtml(InnerTree(tree), Len(pages))


(***************************************************************************)
(* generateTocHtml on its own, one statement at a time, over bounded page  *)
(* lists.                                                                  *)
(***************************************************************************)
\* Output paths and titles the page lists are drawn from.
PathAHtml == <<"a", ".", "h", "t", "m", "l">>
PathAHtmlB == <<"a", ".", "h", "t", "m", "l", "/", "b", ".", "h", "t", "m", "l">>
PathDC == <<"d", "/", "c", ".", "h", "t", "m", "l">>
PathDDC == <<"d", "/", "/", "c", ".", "h", "t", "m", "l">>
PathDEF == <<"d", "/", "e", "/", "f", ".", "h", "t", "m", "l">>
PathDB == <<"d", "/", "b", ".", "h", "t", "m", "l">>
TitleT == <<"t">>
TitleU == <<"u">>

\* The source-relative path a page of the pool would have come from.
PoolRelativePath(path) ==
    IF EndsWith(path, HtmlExt)
    THEN SubSeq(path, 1, Len(path) - Len(HtmlExt)) \o MdExt
    ELSE path

PoolPage(path, title) ==
    PageInfo(path, PoolRelativePath(path), title, Len(Split(path)) - 1)

PagePool ==
    { PoolPage(PathAHtml, TitleT), PoolPage(PathAHtml, TitleU),
      PoolPage(PathAHtmlB, TitleT), PoolPage(PathDC, TitleT),
      PoolPage(PathDDC, TitleU), PoolPage(PathDEF, TitleT),
      PoolPage(PathDB, TitleU), PoolPage(<<>>, TitleT) }

RECURSIVE SeqsUpTo(_, _)
SeqsUpTo(S, n) ==
    IF n = 0 THEN {<<>>}
    ELSE LET shorter == SeqsUpTo(S, n - 1)
         IN  shorter \cup {Append(q, x) : q \in shorter, x \in S}

BuildIdle ==
    /\ fs = <<>>
    /\ fs0 = <<>>
    /\ pc = "off"
    /\ calling = <<>>
    /\ stack = <<>>
    /\ mdFiles = <<>>
    /\ conv = <<>>
    /\ tocInput = <<>>
    /\ errLog = <<>>
    /\ msgs = {}
    /\ run = 0
    /\ snap = <<>>
    /\ late = {}

TitleIdle ==
    /\ titleIn = <<>>
    /\ titleOut = <<>>

TocIdle ==
    /\ tocPages = <<>>
    /\ tocPhase = "idle"
    /\ tocIdx = 0
    /\ tocTree = EmptyTree
    /\ tocOut = <<>>

InitToc ==
    /\ BuildIdle
    /\ TitleIdle
    /\ tocPages \in SeqsUpTo(PagePool, MaxPages)
    /\ tocPhase = "sort"
    /\ tocIdx = 0
    /\ tocTree = EmptyTree
    /\ tocOut = <<>>

\* pages.sort(...); const root = ...
TocSort ==
    /\ tocPhase = "sort"
    /\ tocPages' = SortPages(tocPages)
    /\ tocTree' = EmptyTree
    /\ tocPhase' = "insert"
    /\ UNCHANGED <<tocIdx, tocOut>>

\* One round of pages.forEach.
TocInsert ==
    /\ tocPhase = "insert"
    /\ tocIdx < Len(tocPages)
    /\ tocTree' = InsertPage(tocTree, tocPages[tocIdx + 1])
    /\ tocIdx' = tocIdx + 1
    /\ UNCHANGED <<tocPages, tocPhase, tocOut>>

\* const innerTree = root.children.map(renderNode).join("")
TocRender ==
    /\ tocPhase = "insert"
    /\ tocIdx = Len(tocPages)
    /\ tocOut' = InnerTree(tocTree)
    /\ tocPhase' = "done"
    /\ UNCHANGED <<tocPages, tocIdx, tocTree>>

NextToc ==
    \/ TocSort /\ UNCHANGED <<buildVars, titleVars>>
    \/ TocInsert /\ UNCHANGED <<buildVars, titleVars>>
    \/ TocRender /\ UNCHANGED <<buildVars, titleVars>>

SpecToc == InitToc /\ [][NextToc]_vars

\* What one call computes is what the statements compute one after another.
TocStepwiseAgrees ==
    tocPhase = "done" =>
        TocHtml(tocOut, Len(tocPages)) = GenerateTocHtml(tocPages)


(***************************************************************************)
(* Claims about generateTocHtml (checked under SpecToc).                   *)
(***************************************************************************)
\* The name a rendered item is listed under: a folder's name, a link's last
\* path segment.
ItemName(item) ==
    IF item.t = "folder" THEN item.name
    ELSE LET parts == PathParts(item.href) IN parts[Len(parts)]

RECURSIVE OrderedItems(_)
OrderedItems(items) ==
    /\ \A i, j \in 1..Len(items) :
          i < j =>
            /\ items[i].t = "file" => items[j].t = "file"
            /\ items[i].t = items[j].t =>
                  LocaleCompare(ItemName(items[i]), ItemName(items[j])) < 0
    /\ \A i \in 1..Len(items) :
          items[i].t = "folder" => OrderedItems(items[i].items)

\* The same, below the root only.
RECURSIVE OrderedBelow(_)
OrderedBelow(items) ==
    \A i \in 1..Len(items) :
        items[i].t = "folder" => OrderedItems(items[i].items)

\* C3: in the rendered TOC, at every directory node, the synthetic root
\* included, the children appear directories first, then files, each group in
\* ascending order of name.
C3_ChildrenOrderedEverywhere ==
    tocPhase = "done" => OrderedItems(tocOut)

\* The part of C3 below the root (the children the comparator sorts).
TocOrderedBelowRoot ==
    tocPhase = "done" => OrderedBelow(tocOut)

\* C4: every node of the tree is exactly one of directory (no page) or file
\* (a page and no children), never both.
C4_NodeDirectoryOrFile ==
    \A n \in 1..Len(tocTree) :
        \/ tocTree[n].page = <<>>
        \/ tocTree[n].page # <<>> /\ tocTree[n].children = <<>>

\* The non-empty prefixes of the segment sequences of the pages inserted so far.
InsertedPrefixes ==
    UNION { { SubSeq(PathParts(tocPages[k].path), 1, m) :
                m \in 1..Len(PathParts(tocPages[k].path)) } : k \in 1..tocIdx }

\* C5: no node has two children with the same name, and the tree holds
\* exactly one node for each distinct non-empty prefix of the inserted pages'
\* segment sequences, each hanging below the node of the prefix one shorter.
C5_OneNodePerPrefix ==
    tocPhase \in {"insert", "done"} =>
        /\ \A n \in 1..Len(tocTree) :
              \A i, j \in 1..Len(tocTree[n].children) :
                  i # j => tocTree[tocTree[n].children[i]].name
                             # tocTree[tocTree[n].children[j]].name
        /\ Len(tocTree) - 1 = Cardinality(InsertedPrefixes)
        /\ {tocTree[n].path : n \in 2..Len(tocTree)}
              = {JoinParts(pre) : pre \in InsertedPrefixes}
        /\ \A n \in 1..Len(tocTree) :
              \A i \in 1..Len(tocTree[n].children) :
                  LET c == tocTree[n].children[i]
                  IN  /\ c \in 2..Len(tocTree)
                      /\ tocTree[c].path =
                            IF IsRoot(n) THEN tocTree[c].name
                            ELSE tocTree[n].path \o <<Slash>> \o tocTree[c].name
        /\ \A c \in 2..Len(tocTree) :
              Cardinality({ <<n, i>> \in (1..Len(tocTree)) \X (1..Len(tocTree)) :
                              /\ i <= Len(tocTree[n].children)
                              /\ tocTree[n].children[i] = c }) = 1

\* Several pages were inserted and two of them share a directory node.
C5_Witness ==
    /\ tocPhase = "done"
    /\ tocIdx >= 2
    /\ \E n \in 2..Len(tocTree) : Len(tocTree[n].children) >= 2


(***************************************************************************)
(* File contents.  Every content is a record of the same shape: a markdown *)
(* source (text), a rendered page (title and body, the two interpolations  *)
(* of htmlTemplate), or the navigation page (inner and total, the two      *)
(* interpolations of the template of generateTocHtml).                     *)
(***************************************************************************)
Content(kind, text, title, body, inner, total) ==
    [kind |-> kind, text |-> text, title |-> title, body |-> body,
     inner |-> inner, total |-> total]

NoContent == Content("none", <<>>, <<>>, <<>>, <<>>, 0)
MdContent(text) == Content("md", text, <<>>, <<>>, <<>>, 0)
\* A file whose contents are not HTML output of the script.
OtherContent(text) == Content("other", text, <<>>, <<>>, <<>>, 0)

\* htmlTemplate(title, content)
HtmlTemplate(title, content) == Content("page", <<>>, title, content, <<>>, 0)

\* The file content of the navigation page.
TocContent(toc) == Content("toc", <<>>, <<>>, <<>>, toc.inner, toc.total)

\* marked.parse(mdContent): the external renderer, a function of the text alone.
MarkedParse(text) == <<"<">> \o text \o <<">">>

(***************************************************************************)
(* Title extraction: mdContent.match(/^#\s+(.+)$/m).                       *)
(***************************************************************************)
IsSpace(c) == c \in {" ", "\n"}

\* With the m flag, ^ matches at the start of the text and after a newline.
AtLineStart(text, i) == i = 1 \/ text[i - 1] = "\n"

\* The last position of the run of white space that starts after position i
\* (i itself when there is none): what \s+ takes when greedy.
SpaceRunEnd(text, i) ==
    LET ends == {k \in i..Len(text) : \A j \in (i + 1)..k : IsSpace(text[j])}
    IN  CHOOSE k \in ends : \A j \in ends : j <= k

\* The last position of the line that position j is on: what .+ takes.
LineEnd(text, j) ==
    LET ends == {e \in j..Len(text) : \A x \in j..e : text[x] # "\n"}
    IN  CHOOSE e \in ends : \A x \in ends : x <= e

\* The lengths \s+ may keep, after backtracking, for a match at position i:
\* at least one white-space character, then a character that is no newline.
SpaceStops(text, i) ==
    {m \in (i + 1)..SpaceRunEnd(text, i) : m + 1 <= Len(text) /\ text[m + 1] # "\n"}

MatchesAt(text, i) ==
    /\ AtLineStart(text, i)
    /\ text[i] = "#"
    /\ SpaceStops(text, i) # {}

\* h1Match: <<>> for null, <<capture>> for a match (h1Match[1]).
H1Match(text) ==
    LET starts == {i \in 1..Len(text) : MatchesAt(text, i)}
    IN  IF starts = {} THEN <<>>
        ELSE LET i == CHOOSE k \in starts : \A j \in starts : k <= j
                 m == CHOOSE k \in SpaceStops(text, i) :
                          \A j \in SpaceStops(text, i) : j <= k
             IN  <<SubSeq(text, m + 1, LineEnd(text, m + 1))>>

\* const title = h1Match ? h1Match[1] : basename(mdPath, ".md")
TitleOf(text, mdPath) ==
    IF H1Match(text) # <<>> THEN H1Match(text)[1] ELSE BasenameExt(mdPath, MdExt)

(***************************************************************************)
(* The directories of the script and the paths a conversion derives.       *)
(***************************************************************************)
\* process.cwd()
Cwd == <<"/", "w">>
SRC_DIR == Cwd
DistName == <<"d", "i", "s", "t">>
DIST_DIR == Join(Cwd, DistName)
NodeModulesName == <<"n", "o", "d", "e", "_", "m", "o", "d", "u", "l", "e", "s">>
TocName == <<"t", "o", "c", ".", "h", "t", "m", "l">>
\* join(DIST_DIR, "toc.html")
TocPath == Join(DIST_DIR, TocName)

\* const relativePath = relative(SRC_DIR, mdPath)
RelativePathOf(mdPath) == Relative(SRC_DIR, mdPath)

\* const htmlPath = join(DIST_DIR, relativePath.replace(/\.md$/, ".html"))
HtmlPathFlat(mdPath) == Join(DIST_DIR, ReplaceMdWithHtml(Basename(mdPath)))

HtmlPathOf(mdPath) == Join(DIST_DIR, ReplaceMdWithHtml(RelativePathOf(mdPath)))

\* const outputDir = dirname(htmlPath)
OutputDirOf(mdPath) == Dirname(HtmlPathOf(mdPath))

\* const html = htmlTemplate(title, htmlContent)
HtmlOf(text, mdPath) == HtmlTemplate(TitleOf(text, mdPath), MarkedParse(text))

\* The PageInfo convertMarkdownToHtml returns.
PageOf(text, mdPath) ==
    PageInfo(Relative(DIST_DIR, HtmlPathOf(mdPath)),
             RelativePathOf(mdPath),
             TitleOf(text, mdPath),
             Len(Split(RelativePathOf(mdPath))) - 1)

(***************************************************************************)
(* The file system.                                                        *)
(***************************************************************************)
Entry(kind, data) == [kind |-> kind, data |-> data]
DirEntry == Entry("dir", NoContent)
\* A directory or file the process may not read.
NoAccess == Content("noaccess", <<>>, <<>>, <<>>, <<>>, 0)

Exists(f, p) == p \in DOMAIN f
IsDir(f, p) == Exists(f, p) /\ f[p].kind = "dir"

\* p and the directories above it, down to the working directory.
RECURSIVE Ancestors(_)
Ancestors(p) ==
    IF Len(p) <= Len(Cwd) THEN {Cwd} ELSE {p} \cup Ancestors(Dirname(p))

\* f with the entries of g added or replaced.
Overlay(f, g) ==
    [p \in DOMAIN f \cup DOMAIN g |-> IF p \in DOMAIN g THEN g[p] ELSE f[p]]

\* mkdir(p, { recursive: true }) fails when p or a directory above it exists
\* and is no directory ...
MkdirFails(f, p) == \E a \in Ancestors(p) : Exists(f, a) /\ ~IsDir(f, a)

\* A mkdir that cleans: what lies below p is removed.
MkdirResultCleaning(f, p) ==
    LET kept == {x \in DOMAIN f : ~StartsWith(x, p \o <<Slash>>)}
    IN  Overlay([x \in kept |-> f[x]],
                [a \in {x \in Ancestors(p) : ~Exists(f, x)} |-> DirEntry])

\* ... and otherwise creates every directory that is missing.
MkdirResult(f, p) ==
    Overlay(f, [a \in {x \in Ancestors(p) : ~Exists(f, x)} |-> DirEntry])

\* writeFile(p, data) fails when p is a directory or the directory holding
\* it does not exist ...
WriteFails(f, p) == IsDir(f, p) \/ ~IsDir(f, Dirname(p))

\* ... and otherwise creates or overwrites the file.
WriteResult(f, p, data) == Overlay(f, [x \in {p} |-> Entry("file", data)])

\* readFile(p) fails when p is no readable file.
ReadFails(f, p) ==
    ~Exists(f, p) \/ f[p].kind = "dir" \/ f[p].data.kind = "noaccess"

\* readdir(dir) fails when dir is no readable directory.
ReaddirFails(f, dir) == ~IsDir(f, dir) \/ f[dir].data.kind = "noaccess"

\* The names readdir(dir) returns.
ChildNames(f, dir) == {Basename(p) : p \in {x \in DOMAIN f : x # Cwd /\ Dirname(x) = dir}}

\* The part of the file system at or below dir.
Below(f, dir) ==
    [p \in {x \in DOMAIN f : x = dir \/ StartsWith(x, dir \o <<Slash>>)} |-> f[p]]


(***************************************************************************)
(* The directory trees the build is run on.                                *)
(***************************************************************************)
\* "# t": a document with a top-level heading; "x": one without.
DocHeading == <<"#", " ", "t">>
DocPlain == <<"x">>

Candidate(rel, kind, data) == [rel |-> rel, kind |-> kind, data |-> data]

\* The entries a tree is made of: markdown files at the top and in
\* directories, an unreadable file, files and directories with the excluded
\* names, a file that is no markdown, a markdown-named entry that is no
\* regular file, earlier contents of the output directory, an unreadable
\* directory.
Universe ==
    { Candidate(<<"a", ".", "m", "d">>, "file", MdContent(DocHeading)),
      Candidate(<<"a", ".", "m", "d">>, "file", NoAccess),
      Candidate(<<"t", "o", "c", ".", "m", "d">>, "file", MdContent(DocPlain)),
      Candidate(<<"a", ".", "h", "t", "m", "l">>, "dir", NoContent),
      Candidate(<<"a", ".", "h", "t", "m", "l", "/", "b", ".", "m", "d">>, "file", MdContent(DocPlain)),
      Candidate(<<"d">>, "dir", NoContent),
      Candidate(<<"d", "/", "a", ".", "m", "d">>, "file", MdContent(DocPlain)),
      Candidate(<<"d", "/", "n", "o", "d", "e", "_", "m", "o", "d", "u", "l", "e", "s">>, "dir", NoContent),
      Candidate(<<"d", "/", "n", "o", "d", "e", "_", "m", "o", "d", "u", "l", "e", "s", "/", "x", ".", "m", "d">>, "file", MdContent(DocHeading)),
      Candidate(<<".", "g">>, "dir", NoContent),
      Candidate(<<".", "g", "/", "x", ".", "m", "d">>, "file", MdContent(DocHeading)),
      Candidate(<<"d", "/", "n", ".", "t", "x", "t">>, "file", OtherContent(DocPlain)),
      Candidate(<<"d", "/", "l", ".", "m", "d">>, "other", NoContent),
      Candidate(<<".", "h", ".", "m", "d">>, "file", MdContent(DocPlain)),
      Candidate(<<"d", "i", "s", "t">>, "dir", NoContent),
      Candidate(<<"d", "i", "s", "t", "/", "x", ".", "m", "d">>, "file", MdContent(DocHeading)),
      Candidate(<<"d", "i", "s", "t">>, "file", OtherContent(DocPlain)),
      Candidate(<<"d", "i", "s", "t", "/", "t", "o", "c", ".", "h", "t", "m", "l">>, "dir", NoContent),
      Candidate(<<"u">>, "dir", NoAccess) }

RECURSIVE SubsetsUpTo(_, _)
SubsetsUpTo(S, n) ==
    IF n = 0 THEN {{}}
    ELSE LET smaller == SubsetsUpTo(S, n - 1)
         IN  smaller \cup {t \cup {e} : t \in smaller, e \in S}

\* A tree: no path twice, and every entry inside a directory of the tree.
WellFormed(t) ==
    /\ \A e1, e2 \in t : e1.rel = e2.rel => e1 = e2
    /\ \A e \in t :
          LastSlash(e.rel) > 0 =>
              \E d \in t : d.kind = "dir" /\ d.rel = Dirname(e.rel)

Trees == {t \in SubsetsUpTo(Universe, MaxEntries) : WellFormed(t)}

\* The file system holding the tree t below the working directory.
FsOf(t) ==
    [p \in {Cwd} \cup {Join(Cwd, e.rel) : e \in t} |->
        IF p = Cwd THEN DirEntry
        ELSE LET e == CHOOSE x \in t : Join(Cwd, x.rel) = p
             IN  Entry(e.kind, e.data)]

RECURSIVE Perms(_)
Perms(S) ==
    IF S = {} THEN {<<>>}
    ELSE UNION { {<<x>> \o q : q \in Perms(S \ {x})} : x \in S }

(***************************************************************************)
(* build(), getAllMarkdownFiles and convertMarkdownToHtml.                 *)
(***************************************************************************)
Frame(dir, todo) == [dir |-> dir, todo |-> todo]
Conv(cpc, mdPath, mdContent, wrote) ==
    [pc |-> cpc, mdPath |-> mdPath, mdContent |-> mdContent, wrote |-> wrote]
Failure(what, path) == [what |-> what, path |-> path]

RunStart(f) ==
    /\ fs = f
    /\ fs0 = f
    /\ pc = "start"
    /\ calling = <<>>
    /\ stack = <<>>
    /\ mdFiles = <<>>
    /\ conv = <<>>
    /\ tocInput = <<>>
    /\ errLog = <<>>
    /\ msgs = {}
    /\ late = {}

Init ==
    /\ \E t \in Trees : RunStart(FsOf(t))
    /\ run = 1
    /\ snap = <<>>
    /\ TocIdle
    /\ TitleIdle

\* build().catch(console.error): the rejection of build() is logged.
TopLevelCatch(failure) ==
    /\ pc' = "failed"
    /\ errLog' = Append(errLog, failure)

\* console.log("Starting ..."); await mkdir(DIST_DIR, { recursive: true });
\* then the call getAllMarkdownFiles(SRC_DIR).
BuildMkdir ==
    /\ pc = "start"
    /\ msgs' = msgs \cup {"starting"}
    /\ IF MkdirFails(fs, DIST_DIR)
       THEN /\ TopLevelCatch(Failure("mkdir", DIST_DIR))
            /\ UNCHANGED <<fs, calling>>
       ELSE /\ fs' = MkdirResult(fs, DIST_DIR)
            /\ pc' = "discover"
            /\ calling' = <<SRC_DIR>>
            /\ UNCHANGED errLog
    /\ UNCHANGED <<stack, mdFiles, conv, tocInput, run, snap, fs0, late>>

\* const entries = await readdir(dir, { withFileTypes: true }), in any order.
Readdir ==
    /\ pc = "discover"
    /\ calling # <<>>
    /\ IF ReaddirFails(fs, calling[1])
       THEN /\ TopLevelCatch(Failure("readdir", calling[1]))
            /\ UNCHANGED stack
       ELSE /\ \E entries \in Perms(ChildNames(fs, calling[1])) :
                  stack' = <<Frame(calling[1], entries)>> \o stack
            /\ UNCHANGED <<pc, errLog>>
    /\ calling' = <<>>
    /\ UNCHANGED <<fs, mdFiles, conv, tocInput, msgs, run, snap, fs0, late>>

\* A test that forgets the hidden entries.
SkippedUnlessHidden(name) ==
    \/ name = DistName
    \/ name = NodeModulesName

\* The test of the loop: the entry is skipped.
Skipped(name) ==
    \/ name = DistName
    \/ name = NodeModulesName
    \/ StartsWith(name, <<".">>)

\* One round of for (const entry of entries).
VisitEntry ==
    /\ pc = "discover"
    /\ calling = <<>>
    /\ stack # <<>>
    /\ Head(stack).todo # <<>>
    /\ LET name == Head(Head(stack).todo)
           fullPath == Join(Head(stack).dir, name)
           rest == <<Frame(Head(stack).dir, Tail(Head(stack).todo))>> \o Tail(stack)
       IN  /\ stack' = rest
           /\ IF Skipped(name)
              THEN UNCHANGED <<calling, mdFiles>>
              ELSE IF fs[fullPath].kind = "dir"
              THEN /\ calling' = <<fullPath>>
                   /\ UNCHANGED mdFiles
              ELSE IF fs[fullPath].kind = "file" /\ EndsWith(name, MdExt)
              THEN /\ mdFiles' = Append(mdFiles, fullPath)
                   /\ UNCHANGED calling
              ELSE UNCHANGED <<calling, mdFiles>>
    /\ UNCHANGED <<fs, pc, conv, tocInput, errLog, msgs, run, snap, fs0, late>>

\* return files, from a call made by another call.
ReturnInner ==
    /\ pc = "discover"
    /\ calling = <<>>
    /\ Len(stack) > 1
    /\ Head(stack).todo = <<>>
    /\ stack' = Tail(stack)
    /\ UNCHANGED <<fs, pc, calling, mdFiles, conv, tocInput, errLog, msgs, run, snap, fs0, late>>

\* mdFiles.map(convertMarkdownToHtml): every call runs to its first await,
\* the readFile.
StartConversions(files) ==
    [i \in 1..Len(files) |-> Conv("read", files[i], <<>>, <<>>)]

\* A test that never takes the early return.
NoFilesNever(files) == FALSE

\* if (mdFiles.length === 0)
NoFiles(files) == Len(files) = 0

\* return files, to build(): the early return when there are none, the
\* conversions otherwise.
ReturnToBuild ==
    /\ pc = "discover"
    /\ calling = <<>>
    /\ Len(stack) = 1
    /\ Head(stack).todo = <<>>
    /\ stack' = <<>>
    /\ IF NoFiles(mdFiles)
       THEN /\ msgs' = msgs \cup {"no markdown files"}
            /\ pc' = "returned"
            /\ UNCHANGED conv
       ELSE /\ conv' = StartConversions(mdFiles)
            /\ pc' = "converting"
            /\ UNCHANGED msgs
    /\ UNCHANGED <<fs, calling, mdFiles, tocInput, errLog, run, snap, fs0, late>>


\* build() has returned or its rejection is logged.
Terminal == pc \in {"returned", "done", "failed"}

\* A conversion whose rejection nobody sees.
ConvFailsUnseen(i, failure) ==
    /\ conv' = [conv EXCEPT ![i].pc = "failed"]
    /\ UNCHANGED <<pc, errLog>>

\* The rejection of one conversion: Promise.all rejects with the first one,
\* build() rejects and the top-level catch logs it; a later one is dropped.
ConvFails(i, failure) ==
    /\ conv' = [conv EXCEPT ![i].pc = "failed"]
    /\ IF pc = "converting"
       THEN TopLevelCatch(failure)
       ELSE UNCHANGED <<pc, errLog>>

\* const mdContent = await readFile(mdPath, "utf-8"); then the paths are
\* computed and mkdir is issued.
ConvRead(i) ==
    /\ conv[i].pc = "read"
    /\ IF ReadFails(fs, conv[i].mdPath)
       THEN ConvFails(i, Failure("readFile", conv[i].mdPath))
       ELSE /\ conv' = [conv EXCEPT ![i].pc = "mkdir",
                                    ![i].mdContent = fs[conv[i].mdPath].data.text]
            /\ UNCHANGED <<pc, errLog>>
    /\ UNCHANGED <<fs, calling, stack, mdFiles, tocInput, msgs, run, snap, fs0, late>>

\* await mkdir(outputDir, { recursive: true }); then the title and the page
\* are computed and writeFile is issued.
ConvMkdir(i) ==
    /\ conv[i].pc = "mkdir"
    /\ IF MkdirFails(fs, OutputDirOf(conv[i].mdPath))
       THEN /\ ConvFails(i, Failure("mkdir", OutputDirOf(conv[i].mdPath)))
            /\ UNCHANGED fs
       ELSE /\ fs' = MkdirResult(fs, OutputDirOf(conv[i].mdPath))
            /\ conv' = [conv EXCEPT ![i].pc = "write"]
            /\ UNCHANGED <<pc, errLog>>
    /\ UNCHANGED <<calling, stack, mdFiles, tocInput, msgs, run, snap, fs0, late>>

\* The pages of the conversions that have returned, in the order of mdFiles.
RECURSIVE PagesFrom(_, _)
PagesFrom(c, i) ==
    IF i > Len(c) THEN <<>>
    ELSE IF c[i].pc = "done"
         THEN <<PageOf(c[i].mdContent, c[i].mdPath)>> \o PagesFrom(c, i + 1)
         ELSE PagesFrom(c, i + 1)

\* await Promise.all(...) goes on when one conversion has returned.
FirstFulfilled(c) == \E i \in 1..Len(c) : c[i].pc = "done"

\* await Promise.all(...) goes on when every conversion has returned.
AllFulfilled(c) == \A i \in 1..Len(c) : c[i].pc = "done"

\* await writeFile(htmlPath, html, "utf-8"); the progress line; return.  With
\* the last conversion Promise.all is fulfilled and build() goes on to
\* generateTocHtml(pages) and issues the write of toc.html.
ConvWrite(i) ==
    /\ conv[i].pc = "write"
    /\ IF WriteFails(fs, HtmlPathOf(conv[i].mdPath))
       THEN /\ ConvFails(i, Failure("writeFile", HtmlPathOf(conv[i].mdPath)))
            /\ UNCHANGED <<fs, tocInput, msgs, late>>
       ELSE /\ fs' = WriteResult(fs, HtmlPathOf(conv[i].mdPath),
                                 HtmlOf(conv[i].mdContent, conv[i].mdPath))
            /\ conv' = [conv EXCEPT ![i].pc = "done",
                                    ![i].wrote = <<HtmlPathOf(conv[i].mdPath)>>]
            /\ late' = IF Terminal THEN late \cup {HtmlPathOf(conv[i].mdPath)} ELSE late
            /\ IF pc = "converting" /\ AllFulfilled(conv')
               THEN /\ tocInput' = PagesFrom(conv', 1)
                    /\ msgs' = msgs \cup {"generating toc"}
                    /\ pc' = "tocwrite"
               ELSE UNCHANGED <<tocInput, msgs, pc>>
            /\ UNCHANGED errLog
    /\ UNCHANGED <<calling, stack, mdFiles, run, snap, fs0>>

\* const tocHtml = generateTocHtml(pages);
\* await writeFile(join(DIST_DIR, "toc.html"), tocHtml, "utf-8"); then the
\* messages of success.
TocWrite ==
    /\ pc = "tocwrite"
    /\ IF WriteFails(fs, TocPath)
       THEN /\ TopLevelCatch(Failure("writeFile", TocPath))
            /\ UNCHANGED <<fs, msgs>>
       ELSE /\ fs' = WriteResult(fs, TocPath, TocContent(GenerateTocHtml(tocInput)))
            /\ msgs' = msgs \cup {"toc.html created", "success"}
            /\ pc' = "done"
            /\ UNCHANGED errLog
    /\ UNCHANGED <<calling, stack, mdFiles, conv, tocInput, run, snap, fs0, late>>

\* build() has ended, and no conversion is still in flight: the process exits.
Exited == Terminal /\ \A i \in 1..Len(conv) : conv[i].pc \in {"done", "failed"}

\* The script is run again on what the run before left.
RunAgain ==
    /\ Exited
    /\ run < MaxRuns
    /\ run' = run + 1
    /\ snap' = Below(fs, DIST_DIR)
    /\ fs' = fs
    /\ fs0' = fs
    /\ pc' = "start"
    /\ calling' = <<>>
    /\ stack' = <<>>
    /\ mdFiles' = <<>>
    /\ conv' = <<>>
    /\ tocInput' = <<>>
    /\ errLog' = <<>>
    /\ msgs' = {}
    /\ late' = {}

Next ==
    \/ BuildMkdir /\ UNCHANGED <<tocVars, titleVars>>
    \/ Readdir /\ UNCHANGED <<tocVars, titleVars>>
    \/ VisitEntry /\ UNCHANGED <<tocVars, titleVars>>
    \/ ReturnInner /\ UNCHANGED <<tocVars, titleVars>>
    \/ ReturnToBuild /\ UNCHANGED <<tocVars, titleVars>>
    \/ \E i \in 1..Len(conv) : ConvRead(i) /\ UNCHANGED <<tocVars, titleVars>>
    \/ \E i \in 1..Len(conv) : ConvMkdir(i) /\ UNCHANGED <<tocVars, titleVars>>
    \/ \E i \in 1..Len(conv) : ConvWrite(i) /\ UNCHANGED <<tocVars, titleVars>>
    \/ TocWrite /\ UNCHANGED <<tocVars, titleVars>>
    \/ RunAgain /\ UNCHANGED <<tocVars, titleVars>>

Spec == Init /\ [][Next]_vars


(***************************************************************************)
(* Claims about build() (checked under Spec).                              *)
(***************************************************************************)
\* getAllMarkdownFiles has returned to build().
DiscoveryDone == pc \in {"returned", "converting", "tocwrite", "done"} \/ conv # <<>>

\* The files discovered, as a set.
Discovered == {mdFiles[i] : i \in 1..Len(mdFiles)}

\* dist/P.html for the source file P.md.
OutputFor(mdPath) ==
    LET rel == Relative(Cwd, mdPath)
    IN  Cwd \o <<Slash>> \o DistName \o <<Slash>>
            \o SubSeq(rel, 1, Len(rel) - Len(MdExt)) \o HtmlExt

\* The page rendered from the source file at mdPath.
RenderedPage(mdPath) == Entry("file", HtmlOf(fs[mdPath].data.text, mdPath))

HoldsOwnPage(mdPath) ==
    /\ Exists(fs, OutputFor(mdPath))
    /\ fs[OutputFor(mdPath)] = RenderedPage(mdPath)

HoldsToc ==
    /\ Exists(fs, TocPath)
    /\ fs[TocPath].kind = "file"
    /\ fs[TocPath].data.kind = "toc"

\* C1: after a build() that completes without error, for every discovered
\* markdown file P.md, whatever its name, dist/P.html holds that file's own
\* rendered page, and dist/toc.html holds the navigation page.
C1_EveryPageAndTocInPlace ==
    pc = "done" => /\ \A f \in Discovered : HoldsOwnPage(f)
                   /\ HoldsToc

\* What holds of C1: the files whose output is not dist/toc.html.
PagesInPlaceExceptToc ==
    pc = "done" => /\ \A f \in Discovered : OutputFor(f) # TocPath => HoldsOwnPage(f)
                   /\ HoldsToc

\* C2: no conversion starts before discovery has completed, and the TOC is
\* generated, and toc.html written, only after every conversion issued has
\* finished, from the pages of all the files discovered.
C2_DiscoveryThenConversionsThenToc ==
    /\ conv # <<>> =>
          /\ pc \notin {"start", "discover"}
          /\ stack = <<>> /\ calling = <<>>
          /\ Len(conv) = Len(mdFiles)
          /\ \A i \in 1..Len(conv) : conv[i].mdPath = mdFiles[i]
    /\ (tocInput # <<>> \/ pc \in {"tocwrite", "done"}) =>
          /\ \A i \in 1..Len(conv) : conv[i].pc = "done"
          /\ Len(tocInput) = Len(mdFiles)
          /\ \A i \in 1..Len(mdFiles) :
                tocInput[i] = PageOf(fs[mdFiles[i]].data.text, mdFiles[i])
    /\ pc = "done" =>
          fs[TocPath].data.total = Len(mdFiles)

\* A build of several files has written its TOC.
C2_Witness ==
    /\ pc = "done"
    /\ Len(mdFiles) >= 2

\* The components of a path below the working directory.
Components(p) == Split(Relative(Cwd, p))

Excluded(name) ==
    \/ name = <<"d", "i", "s", "t">>
    \/ name = <<"n", "o", "d", "e", "_", "m", "o", "d", "u", "l", "e", "s">>
    \/ (Len(name) >= 1 /\ name[1] = ".")

\* The regular files named *.md with no excluded component on their path.
Qualifying ==
    { p \in DOMAIN fs :
        /\ p # Cwd
        /\ fs[p].kind = "file"
        /\ EndsWith(p, MdExt)
        /\ \A k \in 1..Len(Components(p)) : ~Excluded(Components(p)[k]) }

\* C6: getAllMarkdownFiles returns exactly the regular files whose name ends
\* in .md and that have no path component below the root (their own name
\* included) equal to dist or node_modules or starting with '.'; each once.
C6_DiscoveryExact ==
    DiscoveryDone =>
        /\ Discovered = Qualifying
        /\ Cardinality(Discovered) = Len(mdFiles)

\* Discovery has returned some files and left out a markdown file with an
\* excluded component and a markdown-named entry that is no regular file or
\* a non-markdown file.
C6_Witness ==
    /\ DiscoveryDone
    /\ Len(mdFiles) >= 1
    /\ \E p \in DOMAIN fs :
          /\ fs[p].kind = "file" /\ EndsWith(p, MdExt)
          /\ ~StartsWith(p, DIST_DIR)
          /\ p \notin Discovered

\* C7: each conversion of a run writes its page to a path no other
\* conversion of the run writes to: distinct source files have distinct
\* output paths.
C7_OutputPathsDisjoint ==
    \A i, j \in 1..Len(conv) :
        i # j =>
            /\ HtmlPathOf(conv[i].mdPath) # HtmlPathOf(conv[j].mdPath)
            /\ conv[i].wrote # <<>> =>
                  /\ conv[i].wrote # conv[j].wrote
                  /\ conv[i].wrote[1] = HtmlPathOf(conv[i].mdPath)

\* Two conversions of files with the same name in different directories have
\* both written.
C7_Witness ==
    \E i, j \in 1..Len(conv) :
        /\ i # j
        /\ conv[i].wrote # <<>> /\ conv[j].wrote # <<>>
        /\ Basename(conv[i].mdPath) = Basename(conv[j].mdPath)

\* The page a conversion wrote is still what its output path holds.
KeepsPage(i) ==
    conv[i].wrote # <<>> =>
        /\ Exists(fs, conv[i].wrote[1])
        /\ fs[conv[i].wrote[1]] = Entry("file", HtmlOf(conv[i].mdContent, conv[i].mdPath))

\* C8, in every state: the top-level catch has logged at most one failure,
\* and exactly one once build() has failed; when a conversion has failed,
\* build() has failed, the TOC step has not run (no pages handed to
\* generateTocHtml, no navigation page written to toc.html) and the success
\* message is not printed; and the pages written stay as written.
ErrorsCaughtOnce ==
    /\ Len(errLog) <= 1
    /\ pc = "failed" <=> Len(errLog) = 1
    /\ (\E i \in 1..Len(conv) : conv[i].pc = "failed") =>
          /\ pc = "failed"
          /\ errLog[1].what \in {"readFile", "mkdir", "writeFile"}
          /\ \E i \in 1..Len(conv) :
                conv[i].pc = "failed" /\ errLog[1].path \in
                    {conv[i].mdPath, OutputDirOf(conv[i].mdPath), HtmlPathOf(conv[i].mdPath)}
          /\ tocInput = <<>>
          /\ msgs \cap {"generating toc", "toc.html created", "success"} = {}
          /\ \/ ~Exists(fs, TocPath)
             \/ Exists(fs0, TocPath) /\ fs[TocPath] = fs0[TocPath]
             \/ fs[TocPath].data.kind # "toc"
    /\ pc = "failed" => \A i \in 1..Len(conv) : KeepsPage(i)

\* C8, in every step: nothing the file system holds is removed, and no
\* directory or file changes its kind.
NothingRemoved ==
    \A p \in DOMAIN fs : p \in DOMAIN fs' /\ fs'[p].kind = fs[p].kind

C9_EmptyInputIsNoOp ==
    /\ (DiscoveryDone /\ Len(mdFiles) = 0) => pc = "returned"
    /\ pc = "returned" =>
          /\ Len(mdFiles) = 0
          /\ errLog = <<>>
          /\ conv = <<>>
          /\ tocInput = <<>>
          /\ "success" \notin msgs
          /\ \A p \in DOMAIN fs :
                p # DIST_DIR => p \in DOMAIN fs0 /\ fs0[p] = fs[p]
          /\ DOMAIN fs0 \subseteq DOMAIN fs

\* A first run on a tree that holds files, none of them a markdown file to
\* convert, has returned.
C9_Witness ==
    /\ pc = "returned"
    /\ run = 1
    /\ \E p \in DOMAIN fs : fs[p].kind = "file"
    /\ ~Exists(fs, TocPath)

\* C10: a further run on the unchanged tree leaves the output directory,
\* each page and toc.html, as the run before left it, whatever the order of
\* the directory entries and of the conversions.
C10_SecondRunChangesNothing ==
    (run >= 2 /\ Exited) => Below(fs, DIST_DIR) = snap

\* A second run has converted several files that readdir returned in another
\* order than the order of their paths, and has written its TOC.
C10_Witness ==
    /\ run >= 2
    /\ pc = "done"
    /\ Len(mdFiles) >= 2
    /\ LocaleCompare(mdFiles[1], mdFiles[2]) > 0


\* The path of the node a page is inserted at: its segments, joined.
NodePathOf(page) == JoinParts(PathParts(page.path))

\* The first of the pages inserted so far that has the node path p.
FirstInsertedAt(p) ==
    LET at == {k \in 1..tocIdx : NodePathOf(tocPages[k]) = p}
    IN  tocPages[CHOOSE k \in at : \A j \in at : k <= j]

\* C11, in every state: a node with a page holds the page of the first
\* insertion at its path.
FirstPageStays ==
    tocPhase \in {"insert", "done"} =>
        \A n \in 2..Len(tocTree) :
            tocTree[n].page # <<>> =>
                tocTree[n].page = <<FirstInsertedAt(tocTree[n].path)>>

\* C11, in every insertion: the nodes there are keep their name, path and
\* page, and a page whose path has a node already adds no node.
InsertionReuses ==
    (tocPhase = "insert" /\ tocIdx' = tocIdx + 1) =>
        /\ Len(tocTree') >= Len(tocTree)
        /\ \A n \in 1..Len(tocTree) :
              /\ tocTree'[n].page = tocTree[n].page
              /\ tocTree'[n].name = tocTree[n].name
              /\ tocTree'[n].path = tocTree[n].path
        /\ (\E n \in 2..Len(tocTree) :
                tocTree[n].path = NodePathOf(tocPages[tocIdx + 1]))
              => Len(tocTree') = Len(tocTree)

\* C11: when a page is inserted whose full output path already has a node,
\* that node is reused and its page left as it is: the page of the first
\* insertion for a path is never overwritten by a later page of that path.
C11_FirstInsertionKept ==
    []FirstPageStays /\ [][InsertionReuses]_vars

\* Two pages with the same path and different titles have been inserted and
\* the node holds the first.
C11_Witness ==
    /\ tocPhase = "done"
    /\ \E i, j \in 1..Len(tocPages) :
          /\ i < j
          /\ tocPages[i].path = tocPages[j].path
          /\ tocPages[i].title # tocPages[j].title
          /\ \E n \in 2..Len(tocTree) : tocTree[n].page = <<tocPages[i]>>


\* The links of a rendered list, those inside folders included.
RECURSIVE Links(_)
Links(items) ==
    IF items = <<>> THEN <<>>
    ELSE (IF Head(items).t = "file" THEN <<Head(items)>>
          ELSE Links(Head(items).items)) \o Links(Tail(items))

DistinctNonEmptyPaths ==
    /\ \A k \in 1..Len(tocPages) : tocPages[k].path # <<>>
    /\ \A i, j \in 1..Len(tocPages) : i # j => tocPages[i].path # tocPages[j].path

OneLinkPerPage ==
    LET links == Links(tocOut)
    IN  /\ Len(links) = Len(tocPages)
        /\ \A k \in 1..Len(tocPages) :
              Cardinality({ x \in 1..Len(links) :
                              /\ links[x].href = tocPages[k].path
                              /\ links[x].title = tocPages[k].title }) = 1

\* C13: for every list of pages with pairwise distinct, non-empty output
\* paths the rendered TOC holds exactly one link per page (href its path,
\* text its title), so the links are as many as the total reported, the
\* number of pages passed in.
C13_OneLinkPerPage ==
    (tocPhase = "done" /\ DistinctNonEmptyPaths) => OneLinkPerPage

\* No page's segments are a prefix of, or equal to, another page's.
NoSegmentPrefix ==
    \A i, j \in 1..Len(tocPages) :
        i # j =>
            LET a == PathParts(tocPages[i].path)
                b == PathParts(tocPages[j].path)
            IN  ~(Len(a) <= Len(b) /\ SubSeq(b, 1, Len(a)) = a)

\* What holds of C13: the pages none of whose paths runs through another's.
OneLinkPerPageWhenNoPrefix ==
    (tocPhase = "done" /\ DistinctNonEmptyPaths /\ NoSegmentPrefix) => OneLinkPerPage


(***************************************************************************)
(* The title extraction of convertMarkdownToHtml on its own, over bounded  *)
(* source texts.                                                           *)
(***************************************************************************)
\* The characters the texts are made of.
TitleAlphabet == {"#", " ", "\n", "t"}
\* The file the text is read from: /w/n.md.
TitleMdPath == <<"/", "w", "/", "n", ".", "m", "d">>

InitTitle ==
    /\ BuildIdle
    /\ TocIdle
    /\ titleIn \in SeqsUpTo(TitleAlphabet, MaxTextLen)
    /\ titleOut = <<>>

\* const h1Match = mdContent.match(/^#\s+(.+)$/m);
\* const title = h1Match ? h1Match[1] : basename(mdPath, ".md");
ExtractTitle ==
    /\ titleOut = <<>>
    /\ titleOut' = <<TitleOf(titleIn, TitleMdPath)>>
    /\ UNCHANGED titleIn

NextTitle == ExtractTitle /\ UNCHANGED <<buildVars, tocVars>>

SpecTitle == InitTitle /\ [][NextTitle]_vars

\* The lines of a text.
RECURSIVE SplitLines(_)
SplitLines(text) ==
    LET at == {i \in 1..Len(text) : text[i] = "\n"}
    IN  IF at = {}
        THEN <<text>>
        ELSE LET i == CHOOSE k \in at : \A j \in at : k <= j
             IN  <<SubSeq(text, 1, i - 1)>> \o SplitLines(SubSeq(text, i + 1, Len(text)))

\* A line that is a top-level heading line: '#', at least one white-space
\* character, then text, all on the line.
IsHeadingLine(line) ==
    /\ Len(line) >= 3
    /\ line[1] = "#"
    /\ line[2] = " "

\* The heading text of such a line: what follows '#' and the white space
\* after it (the last character, when nothing but white space follows).
HeadingText(line) ==
    LET rest == {k \in 3..Len(line) : line[k] # " "}
    IN  IF rest = {} THEN SubSeq(line, Len(line), Len(line))
        ELSE SubSeq(line, CHOOSE k \in rest : \A j \in rest : k <= j, Len(line))

\* The title by lines: the heading text of the first heading line, or the
\* file name without .md.
TitleByLines(text, mdPath) ==
    LET lines == SplitLines(text)
        at == {k \in 1..Len(lines) : IsHeadingLine(lines[k])}
    IN  IF at = {}
        THEN SubSeq(Basename(mdPath), 1, Len(Basename(mdPath)) - Len(MdExt))
        ELSE HeadingText(lines[CHOOSE k \in at : \A j \in at : k <= j])

\* C12: the title derived is the heading text of the first line of the
\* source that is itself a top-level heading line ('#', white space, then
\* text on that same line), wherever that line is; with no such line it is
\* the file name without its .md extension.
C12_TitleIsFirstHeadingLine ==
    titleOut # <<>> => titleOut[1] = TitleByLines(titleIn, TitleMdPath)

\* '#' is never followed by white space that runs to the end of its line.
NoBareHash ==
    \A i \in 1..Len(titleIn) :
        (titleIn[i] = "#" /\ AtLineStart(titleIn, i)) =>
            \A k \in (i + 1)..Len(titleIn) :
                titleIn[k] = "\n" => \E j \in (i + 1)..(k - 1) : ~IsSpace(titleIn[j])

\* What holds of C12: the texts in which the white space after a '#' at the
\* start of a line never reaches the end of that line.
TitleIsFirstHeadingLineUnlessBareHash ==
    (titleOut # <<>> /\ NoBareHash) => titleOut[1] = TitleByLines(titleIn, TitleMdPath)


(***************************************************************************)
(* Claims about the conversions running together (checked under Spec).     *)
(***************************************************************************)
\* The conversions of files[i..] run one after the other on f, each to its
\* end: what the file system holds then, and which of them have failed.
RECURSIVE ConvertInTurn(_, _, _)
ConvertInTurn(f, files, i) ==
    IF i > Len(files) THEN [fs |-> f, failed |-> {}]
    ELSE LET md == files[i]
             one ==
                 IF ReadFails(f, md) \/ MkdirFails(f, OutputDirOf(md))
                 THEN [fs |-> f, ok |-> FALSE]
                 ELSE LET g == MkdirResult(f, OutputDirOf(md))
                      IN  IF WriteFails(g, HtmlPathOf(md))
                          THEN [fs |-> g, ok |-> FALSE]
                          ELSE [fs |-> WriteResult(g, HtmlPathOf(md),
                                                   HtmlOf(f[md].data.text, md)),
                                ok |-> TRUE]
             rest == ConvertInTurn(one.fs, files, i + 1)
         IN  [fs |-> rest.fs,
              failed |-> rest.failed \cup (IF one.ok THEN {} ELSE {i})]

\* The outcome of the build on f with the conversions run in turn: the
\* conversions that fail, whether build() succeeds, the file system at the end.
OutcomeInTurn(f, files) ==
    LET r == ConvertInTurn(MkdirResult(f, DIST_DIR), files, 1)
        pages == [i \in 1..Len(files) |-> PageOf(f[files[i]].data.text, files[i])]
        tocOk == r.failed = {} /\ ~WriteFails(r.fs, TocPath)
    IN  [failed |-> r.failed,
         ok |-> tocOk,
         fs |-> IF tocOk
                THEN WriteResult(r.fs, TocPath, TocContent(GenerateTocHtml(pages)))
                ELSE r.fs]

SameOutcomeAsInTurn ==
    LET o == OutcomeInTurn(fs0, mdFiles)
    IN  /\ {i \in 1..Len(conv) : conv[i].pc = "failed"} = o.failed
        /\ (pc = "done") = o.ok
        /\ Below(fs, DIST_DIR) = Below(o.fs, DIST_DIR)

\* C14: for a fixed source tree the outcome of build() is the same for every
\* interleaving of the conversions' mkdir and writeFile steps, the one that
\* runs them in turn among them: whether the build succeeds, which
\* conversions fail and what every output path holds at the end; also where
\* one file's output path is a directory above another's.
C14_OutcomeSameForEveryInterleaving ==
    (Exited /\ conv # <<>>) => SameOutcomeAsInTurn

\* No discovered file's output path is a directory above another's.
NoOutputAboveAnother ==
    \A f, g \in Discovered :
        ~StartsWith(HtmlPathOf(g), HtmlPathOf(f) \o <<Slash>>)

\* What holds of C14: the trees where no output path lies above another.
OutcomeSameWhenNoOutputAboveAnother ==
    (Exited /\ conv # <<>> /\ NoOutputAboveAnother) => SameOutcomeAsInTurn


\* At or below the output root.
UnderDist(p) == p = DIST_DIR \/ StartsWith(p, DIST_DIR \o <<Slash>>)

\* The output paths of the source files the tree holds.
CurrentOutputs == {OutputFor(p) : p \in Qualifying}

C16_NoWriteAfterTerminal == late = {}

\* C16, as it holds: once build() has returned (the success message printed,
\* or the return with no markdown files) no output file is written
\* afterwards; after a failure is logged the conversions still in flight
\* are not cancelled and may each still write their own page, and the TOC
\* step never runs.
C16_LateWritesOnlyByConversionsInFlight ==
    /\ pc \in {"done", "returned"} => late = {}
    /\ \A p \in late :
          /\ pc = "failed"
          /\ p # TocPath \/ tocInput = <<>>
          /\ \E i \in 1..Len(conv) : conv[i].wrote = <<p>> /\ KeepsPage(i)

\* A conversion has written its page after the failure of another was logged.
C16_Witness ==
    /\ pc = "failed"
    /\ Len(errLog) = 1
    /\ \E i \in 1..Len(conv) :
          /\ conv[i].pc = "done"
          /\ conv[i].wrote # <<>>
          /\ conv[i].wrote[1] \in late


====
